---- MODULE Spec2Model ----
(***************************************************************************)
(* State-machine model of src/app/main.py: the POST /tts handler           *)
(* (validation, engine check, timeout-bounded first attempt, retry in a    *)
(* worker thread, artifact write) and the GET /download handler with its   *)
(* deferred deletion.  Time is in milliseconds; strings that matter are    *)
(* modelled by their structure (run-length encoded text, token sequences   *)
(* for file names and URLs).                                               *)
(***************************************************************************)
EXTENDS Integers, Sequences, FiniteSets, TLC

VARIABLES
    workload,   \* which client population drives the run (never changes)
    KPipeline,  \* the engine class, or None when the import failed
    now,        \* time.time() in milliseconds
    files,      \* the scratch directory: path -> file
    rq,         \* POST /tts requests: handler and worker-thread locals
    dl          \* GET /download requests and their background tasks

vars == <<workload, KPipeline, now, files, rq, dl>>

\* ---------------------------------------------------------------- bounds
MaxRequests == 2    \* concurrent POST /tts requests
MaxDownloads == 2   \* GET /download requests
MaxItems == 2       \* items the engine yields per call
MaxTicks == 2       \* timeout periods at whose starts requests arrive
MaxRuns == 3        \* runs of equal characters in a request text

\* --------------------------------------------------------- configuration
MAX_TEXT_LENGTH == 3000
AUDIO_SR == 24000
DEFAULT_VOICE == "af_heart"
DEFAULT_LANG == "f"
PIPELINE_TIMEOUT == 60
FILE_CLEANUP_DELAY == 300
STATIC_DIR == "static"

None == "None"
Engine == "kokoro.KPipeline"

\* One clock step is one timeout period.
TickMs == PIPELINE_TIMEOUT * 1000

Min(a, b) == IF a < b THEN a ELSE b
Max(a, b) == IF a > b THEN a ELSE b

\* ------------------------------------------------------------------ text
\* A text is a sequence of runs [c, n]: n copies of character c, adjacent
\* runs of different characters, every n >= 1.
WS == " "
Chars == {WS, "a"}
Run(c, n) == [c |-> c, n |-> n]

RECURSIVE TextLen(_)
TextLen(t) == IF t = <<>> THEN 0 ELSE Head(t).n + TextLen(Tail(t))

RECURSIVE LStrip(_)
LStrip(t) ==
    IF t = <<>> THEN <<>>
    ELSE IF Head(t).c = WS THEN LStrip(Tail(t)) ELSE t

RECURSIVE RStrip(_)
RStrip(t) ==
    IF t = <<>> THEN <<>>
    ELSE IF t[Len(t)].c = WS THEN RStrip(SubSeq(t, 1, Len(t) - 1)) ELSE t

\* (mutant) the text is used as received
strip_missing(t) == t

\* str.strip(): drop leading and trailing whitespace.
strip(t) == RStrip(LStrip(t))

\* `x or d` on a text.
OrText(t, d) == IF t = <<>> THEN d ELSE t

\* (mutant) only None is replaced by the default
OrStrNoneOnly(s, d) == IF s = None THEN d ELSE s

\* `x or d` on a string or None.
OrStr(s, d) == IF s = None \/ s = "" THEN d ELSE s

IsBlank(t) == \A i \in 1..Len(t) : t[i].c = WS

\* ------------------------------------------------------- names and paths
safe_filename(ts) == <<"kokoro_", ts, ".wav">>
PathOf(filename) == <<STATIC_DIR>> \o filename     \* STATIC_DIR / filename
NameOf(path) == Tail(path)                         \* Path.name
DownloadUrl(filename) == <<"/download/">> \o filename
\* The route /download/{filename} binds what follows the prefix.
RouteFilename(url) == Tail(url)

EmptyDir == [q \in {} |-> 0]
Exists(path) == path \in DOMAIN files
Unlink(fs, path) == [q \in (DOMAIN fs) \ {path} |-> fs[q]]
Put(fs, path, file) == [q \in (DOMAIN fs) \cup {path} |-> IF q = path THEN file ELSE fs[q]]

\* ------------------------------------------------------------- workloads
\* "input": one client, every request body; "engine": one client, every
\* engine behaviour; "concurrent": several clients, plain bodies;
\* "saturated": one client whose downloads outnumber the worker threads.
Workloads == {"input", "engine", "concurrent", "saturated"}

Requests(w) == IF w = "concurrent" THEN 1..MaxRequests ELSE {1}
Req == 1..MaxRequests
Dl == 1..MaxDownloads

Absent == "Absent"

RECURSIVE TextsOf(_)
\* every text of exactly k runs with run lengths around the limit
TextsOf(k) ==
    IF k = 0 THEN {<<>>}
    ELSE LET lens == {1, MAX_TEXT_LENGTH, MAX_TEXT_LENGTH + 1}
         IN  {Append(t, Run(c, n)) : t \in TextsOf(k - 1), c \in Chars, n \in lens}

WellFormed(t) == \A i \in 1..(Len(t) - 1) : t[i].c # t[i + 1].c

Texts == UNION {{t \in TextsOf(k) : WellFormed(t)} : k \in 0..MaxRuns}

PlainText == <<Run("a", 1)>>

\* "input" varies the text with the other fields absent, and the voice and
\* language with a plain text.
Bodies(w) ==
    IF w = "input"
    THEN [text : Texts, voice : {Absent}, lang : {Absent}]
         \cup [text : {PlainText}, voice : {Absent, None, "", "bf_emma"},
               lang : {Absent, None, "", "b"}]
    ELSE {[text |-> PlainText, voice |-> Absent, lang |-> Absent]}

\* class TTSRequest: field defaults applied to the parsed body.  The speed
\* is only handed on to the engine; every body leaves it at its default.
TTSRequest(body) ==
    [text |-> body.text,
     voice |-> IF body.voice = Absent THEN None ELSE body.voice,
     lang |-> IF body.lang = Absent THEN DEFAULT_LANG ELSE body.lang,
     speed |-> 1]

\* ---------------------------------------------------------------- engine
Audio == {"a1", "a2"}
\* What the generator can yield: None, an empty tuple, a tuple without the
\* audio field, or (gs, ps, audio).
Items == {<<None>>, <<>>, <<"gs", "ps">>} \cup {<<"gs", "ps", a>> : a \in Audio}
NoneItem == <<None>>

RECURSIVE SeqsUpTo(_, _)
SeqsUpTo(S, k) ==
    IF k = 0 THEN {<<>>}
    ELSE LET shorter == SeqsUpTo(S, k - 1)
         IN  shorter \cup {Append(q, x) : q \in shorter, x \in S}

\* An engine call yields `items` and then stops, or raises `raises`.
Outputs(w) ==
    IF w = "engine"
    THEN [items : SeqsUpTo(Items, MaxItems),
          raises : {None, "Exception", "TimeoutError"}]
    ELSE IF w = "saturated"
    THEN [items : {<<(<<"gs", "ps", "a1">>)>>}, raises : {None}]
    ELSE [items : {<<>>, <<(<<"gs", "ps", "a1">>)>>}, raises : {None}]

\* ------------------------------------------------------------------ Init
NoResponse == [filename |-> <<>>, download_url |-> <<>>]

InitRequest ==
    [pc |-> "idle", payload |-> TTSRequest([text |-> <<>>, voice |-> Absent, lang |-> Absent]),
     text |-> <<>>, voice |-> None, lang |-> None, out_path |-> <<>>,
     elapsed |-> 0, attempts |-> 0, first |-> None, output |-> [items |-> <<>>, raises |-> None],
     last_audio |-> None, exc |-> None, fd |-> 0,
     status |-> 0, response |-> NoResponse,
     calls |-> <<>>, fsops |-> 0]

InitDownload ==
    [pc |-> "idle", filename |-> <<>>, status |-> 0, served |-> None, remaining |-> 0,
     caught |-> None, raised |-> None]

Init ==
    /\ workload \in Workloads
    /\ KPipeline \in {None, Engine}
    /\ now = 0
    /\ files = EmptyDir
    /\ rq = [r \in Req |-> InitRequest]
    /\ dl = [d \in Dl |-> InitDownload]

\* Requests arrive during the first MaxTicks periods; the clock stops
\* counting there, while time (the timers of Tick) goes on.
InHorizon == now \div TickMs < MaxTicks

\* (mutant) the limit is off by one
TooLongOffByOne(text) == TextLen(text) > MAX_TEXT_LENGTH + 1

\* len(text) > MAX_TEXT_LENGTH
TooLong(text) == TextLen(text) > MAX_TEXT_LENGTH

\* (mutant) the engine check is missing
EngineNeverMissing == FALSE

\* KPipeline is None
EngineMissing == KPipeline = None

\* ------------------------------------------------------------- POST /tts
Set(r, rec) == rq' = [rq EXCEPT ![r] = rec]

HTTPException(rec, code) == [rec EXCEPT !.pc = "done", !.status = code]

\* The handler up to its first await: validation, defaults, engine check,
\* output path.
synthesize_tts(r, payload) ==
    LET text == strip(OrText(payload.text, <<>>))
        voice == OrStr(payload.voice, DEFAULT_VOICE)
        lang == OrStr(payload.lang, DEFAULT_LANG)
        ts == now
        got == [rq[r] EXCEPT !.payload = payload]
    IN  IF text = <<>> THEN HTTPException(got, 422)
        ELSE IF TooLong(text)
        THEN HTTPException([got EXCEPT !.text = text], 413)
        ELSE IF EngineMissing
        THEN HTTPException([got EXCEPT !.text = text, !.voice = voice, !.lang = lang], 503)
        ELSE [got EXCEPT !.text = text, !.voice = voice, !.lang = lang,
                         !.out_path = PathOf(safe_filename(ts)),
                         !.pc = "attempt1", !.attempts = 1, !.elapsed = 0]

PostTts(r) ==
    /\ r \in Requests(workload)
    /\ rq[r].pc = "idle"
    /\ InHorizon
    /\ \E body \in Bodies(workload) : Set(r, synthesize_tts(r, TTSRequest(body)))
    /\ UNCHANGED <<workload, KPipeline, now, files, dl>>

\* Line 169: the callable handed to the worker thread.  Its conditional
\* expression has the constant condition False, so it evaluates
\* asyncio.get_event_loop(), which raises RuntimeError in a thread that has
\* no event loop; run_pipeline_and_write is not called.
first_attempt == IF FALSE THEN "run_pipeline_and_write" ELSE "get_event_loop"

\* (mutant) the first attempt's job calls the engine before it fails
Attempt1RanPipeline(r) ==
    /\ rq[r].pc = "attempt1"
    /\ rq[r].elapsed < PIPELINE_TIMEOUT
    /\ Set(r, [rq[r] EXCEPT !.pc = "retry", !.first = "failed", !.attempts = @ + 1,
                            !.elapsed = 0,
                            !.calls = Append(@, [fn |-> "KPipeline",
                                                 lang_code |-> rq[r].lang])])
    /\ UNCHANGED <<workload, KPipeline, now, files, dl>>

\* The first attempt's job finished before the deadline: it raised, and
\* `except Exception` starts the retry in a worker thread.
Attempt1Fail(r) ==
    /\ rq[r].pc = "attempt1"
    /\ rq[r].elapsed < PIPELINE_TIMEOUT
    /\ first_attempt = "get_event_loop"
    /\ Set(r, [rq[r] EXCEPT !.pc = "retry", !.first = "failed", !.attempts = @ + 1,
                            !.elapsed = 0])
    /\ UNCHANGED <<workload, KPipeline, now, files, dl>>

\* (mutant) a timeout of the first attempt falls through to the retry
Attempt1TimeoutRetried(r) ==
    /\ rq[r].pc = "attempt1"
    /\ rq[r].elapsed >= PIPELINE_TIMEOUT
    /\ Set(r, [rq[r] EXCEPT !.pc = "retry", !.first = "timeout", !.attempts = @ + 1,
                            !.elapsed = 0])
    /\ UNCHANGED <<workload, KPipeline, now, files, dl>>

\* wait_for: the job has not finished when the timeout elapses.
Attempt1Timeout(r) ==
    /\ rq[r].pc = "attempt1"
    /\ rq[r].elapsed >= PIPELINE_TIMEOUT
    /\ Set(r, HTTPException([rq[r] EXCEPT !.first = "timeout"], 504))
    /\ UNCHANGED <<workload, KPipeline, now, files, dl>>

\* ------------------------------------------- run_pipeline_and_write
\* (mutant) the first audio buffer is kept
KeepFirstAudio(last_audio, audio) == IF last_audio = None THEN audio ELSE last_audio

\* last_audio = audio
KeepAudio(last_audio, audio) == audio

RECURSIVE Iterate(_, _)
\* the for loop over the generator: last_audio after the items
Iterate(items, last_audio) ==
    IF items = <<>> THEN last_audio
    ELSE LET item == Head(items)
         IN  IF item = NoneItem \/ item = <<>> \/ Len(item) < 3
             THEN Iterate(Tail(items), last_audio)
             ELSE Iterate(Tail(items), KeepAudio(last_audio, item[3]))

\* (mutant) the check for a missing result is dropped
NoAudioUnchecked(last_audio) == FALSE

\* last_audio is None
NoAudio(last_audio) == last_audio = None

\* The handler answers an exception of the retry: 504 for a timeout error,
\* 500 for anything else.
RetryRaise(rec, exc) ==
    HTTPException([rec EXCEPT !.exc = exc], IF exc = "TimeoutError" THEN 504 ELSE 500)

\* The worker thread runs run_pipeline_and_write up to the write:
\* KPipeline(lang_code=lang), whose failure is re-raised as RuntimeError
\* outside the try block that cleans up; then
\* pipeline(text, voice=voice, speed=payload.speed) and the loop over it.
RunPipeline(r) ==
    /\ rq[r].pc = "retry"
    /\ LET init == [rq[r] EXCEPT !.calls = Append(@, [fn |-> "KPipeline", lang_code |-> rq[r].lang])]
       IN  \/ Set(r, RetryRaise(init, "RuntimeError"))
           \/ \E out \in Outputs(workload) :
                 LET called == [init EXCEPT
                                   !.calls = Append(@, [fn |-> "pipeline", text |-> rq[r].text,
                                                        voice |-> rq[r].voice,
                                                        speed |-> rq[r].payload.speed]),
                                   !.output = out]
                     last_audio == Iterate(out.items, None)
                 IN  IF out.raises # None
                     THEN Set(r, [called EXCEPT !.pc = "except", !.exc = out.raises])
                     ELSE IF NoAudio(last_audio)
                     THEN Set(r, [called EXCEPT !.pc = "except", !.exc = "NoAudio"])
                     ELSE Set(r, [called EXCEPT !.pc = "write", !.last_audio = last_audio])
    /\ UNCHANGED <<workload, KPipeline, now, files, dl>>

\* write_wav_file, first half: sf.write creates or truncates the file.
WriteOpen(r) ==
    /\ rq[r].pc = "write"
    /\ LET path == rq[r].out_path
           ino == IF Exists(path) THEN files[path].ino ELSE r
       IN  \/ /\ files' = Put(files, path, [ino |-> ino, state |-> "partial",
                                            audio |-> None, by |-> r])
              /\ Set(r, [rq[r] EXCEPT !.pc = "writing", !.fd = ino, !.fsops = @ + 1])
           \/ /\ Set(r, [rq[r] EXCEPT !.pc = "except", !.exc = "Exception"])
              /\ UNCHANGED files
    /\ UNCHANGED <<workload, KPipeline, now, dl>>

\* write_wav_file, second half: the samples are written and the file closed,
\* or the write raises and leaves what was written.
WriteClose(r) ==
    /\ rq[r].pc = "writing"
    /\ LET path == rq[r].out_path
       IN  \/ /\ files' = IF Exists(path) /\ files[path].ino = rq[r].fd
                          THEN Put(files, path, [ino |-> rq[r].fd, state |-> "written",
                                                 audio |-> rq[r].last_audio, by |-> r])
                          ELSE files
              /\ Set(r, [rq[r] EXCEPT !.pc = "returned"])
           \/ /\ Set(r, [rq[r] EXCEPT !.pc = "except", !.exc = "Exception"])
              /\ UNCHANGED files
    /\ UNCHANGED <<workload, KPipeline, now, dl>>

\* (mutant) the except branch re-raises without removing the file
ExceptCleanupSkipped(r) ==
    /\ rq[r].pc = "except"
    /\ Set(r, RetryRaise(rq[r], rq[r].exc))
    /\ UNCHANGED <<workload, KPipeline, now, files, dl>>

\* except Exception: if out_path.exists() then out_path.unlink(), a failure
\* of which is swallowed; then `raise`, which the handler answers.
ExceptCleanup(r) ==
    /\ rq[r].pc = "except"
    /\ IF Exists(rq[r].out_path)
       THEN /\ files' = Unlink(files, rq[r].out_path)
            /\ Set(r, RetryRaise([rq[r] EXCEPT !.fsops = @ + 1], rq[r].exc))
       ELSE /\ UNCHANGED files
            /\ Set(r, RetryRaise(rq[r], rq[r].exc))
    /\ UNCHANGED <<workload, KPipeline, now, dl>>

\* The retry returned the file name: step 5 builds the response.
RetryReturn(r) ==
    /\ rq[r].pc = "returned"
    /\ LET filename == NameOf(rq[r].out_path)
       IN  Set(r, [rq[r] EXCEPT !.pc = "done", !.status = 200,
                                !.response = [filename |-> filename,
                                              download_url |-> DownloadUrl(filename)]])
    /\ UNCHANGED <<workload, KPipeline, now, files, dl>>

\* -------------------------------------------------------- GET /download
\* Names a client may ask for: the names handed to requests, and one that
\* is never created.
MissingName == safe_filename(MaxTicks * TickMs)
DownloadNames ==
    {NameOf(rq[r].out_path) : r \in {q \in Req : rq[q].out_path # <<>>}} \cup {MissingName}

\* download_file and cleanup_file_delayed are plain functions (`def`), which
\* the framework runs on its pool of worker threads: the handler for the
\* time of the call, the background task until time.sleep and cleanup_file
\* have returned.  The pool is finite; only "saturated" has more downloads
\* than threads.
Threads(w) == IF w = "saturated" THEN MaxDownloads - 1 ELSE MaxDownloads
Sleeping == {d \in Dl : dl[d].pc \in {"sleep", "unlink"}}
FreeThread == Cardinality(Sleeping) < Threads(workload)

\* (mutant) the existence check is missing
download_file_unchecked(d, filename) ==
    [dl[d] EXCEPT !.filename = filename, !.pc = "sleep", !.status = 200,
                  !.served = "written", !.remaining = FILE_CLEANUP_DELAY]

download_file(d, filename) ==
    LET safe_path == PathOf(filename)
        got == [dl[d] EXCEPT !.filename = filename]
    IN  IF ~Exists(safe_path)
        THEN [got EXCEPT !.pc = "done", !.status = 404]
        ELSE [got EXCEPT !.pc = "sleep", !.status = 200, !.served = files[safe_path].state,
                         !.remaining = FILE_CLEANUP_DELAY]

Download(d) ==
    /\ dl[d].pc = "idle"
    /\ FreeThread
    /\ \E filename \in DownloadNames : dl' = [dl EXCEPT ![d] = download_file(d, filename)]
    /\ UNCHANGED <<workload, KPipeline, now, files, rq>>

\* cleanup_file_delayed: time.sleep returned; cleanup_file: `if path.exists()`
CleanupExists(d) ==
    /\ dl[d].pc = "sleep"
    /\ dl[d].remaining = 0
    /\ dl' = [dl EXCEPT ![d].pc = IF Exists(PathOf(dl[d].filename)) THEN "unlink" ELSE "done"]
    /\ UNCHANGED <<workload, KPipeline, now, files, rq>>

\* (mutant) the file is not removed
CleanupUnlinkSkipped(d) ==
    /\ dl[d].pc = "unlink"
    /\ dl' = [dl EXCEPT ![d].pc = "done"]
    /\ UNCHANGED <<workload, KPipeline, now, files, rq>>

\* (mutant) cleanup_file without its try block
cleanup_file_unguarded(exc) == exc

\* cleanup_file, `except Exception as e: logger.warning(...)`: what the
\* caller sees of an exception raised inside the try block
cleanup_file_except(exc) == None

\* cleanup_file: path.unlink(), which raises FileNotFoundError when the file
\* was removed after the existence check; the exception is logged
CleanupUnlink(d) ==
    /\ dl[d].pc = "unlink"
    /\ IF Exists(PathOf(dl[d].filename))
       THEN /\ files' = Unlink(files, PathOf(dl[d].filename))
            /\ dl' = [dl EXCEPT ![d].pc = "done"]
       ELSE /\ UNCHANGED files
            /\ dl' = [dl EXCEPT ![d].pc = "done", ![d].caught = "FileNotFoundError",
                                ![d].raised = cleanup_file_except("FileNotFoundError")]
    /\ UNCHANGED <<workload, KPipeline, now, rq>>

\* ------------------------------------------------------------------ time
Running(rec) == rec.pc \notin {"idle", "done"}

\* One timeout period passes: the clock advances, the running attempts have
\* run for one more period (counted up to the timeout) and every sleeping
\* background task has one period less to sleep.
Tick ==
    /\ now' = IF InHorizon THEN now + TickMs ELSE now
    /\ rq' = [r \in Req |->
                 IF Running(rq[r])
                 THEN [rq[r] EXCEPT !.elapsed = Min(@ + PIPELINE_TIMEOUT, PIPELINE_TIMEOUT)]
                 ELSE rq[r]]
    /\ dl' = [d \in Dl |->
                 IF dl[d].pc = "sleep"
                 THEN [dl[d] EXCEPT !.remaining = Max(@ - PIPELINE_TIMEOUT, 0)]
                 ELSE dl[d]]
    /\ UNCHANGED <<workload, KPipeline, files>>

Next ==
    \/ \E r \in Req :
          \/ PostTts(r)
          \/ Attempt1Fail(r)
          \/ Attempt1Timeout(r)
          \/ RunPipeline(r)
          \/ WriteOpen(r)
          \/ WriteClose(r)
          \/ ExceptCleanup(r)
          \/ RetryReturn(r)
    \/ \E d \in Dl :
          \/ Download(d)
          \/ CleanupExists(d)
          \/ CleanupUnlink(d)
    \/ Tick

Spec == Init /\ [][Next]_vars

\* Time passes, and a background task that can run does run.
FairSpec ==
    /\ Spec
    /\ WF_vars(Tick)
    /\ \A d \in Dl : WF_vars(CleanupExists(d)) /\ WF_vars(CleanupUnlink(d))

\* ================================================================ claims
Done(r) == rq[r].pc = "done"
EngineRuns(r) == Len(SelectSeq(rq[r].calls, LAMBDA c : c.fn = "KPipeline"))

\* C1 (as claimed): every synthesis execution, first attempt and retry alike,
\* is bounded by PIPELINE_TIMEOUT: a request whose attempt was still running
\* when the timeout elapsed ends with 504, never with 200 or 500.
C1_EveryAttemptBounded ==
    \A r \in Req :
        (Done(r) /\ rq[r].attempts >= 1 /\ rq[r].elapsed >= PIPELINE_TIMEOUT)
            => rq[r].status = 504

\* C2 (as claimed): a non-timeout failure of the first attempt is retried
\* exactly once, a failed retry ends with 500, no request makes more than
\* two attempts, and a timeout of the first attempt is never retried.
C2_FailedRetryIs500 ==
    \A r \in Req :
        /\ rq[r].attempts <= 2
        /\ rq[r].first = "failed" => rq[r].attempts = 2
        /\ rq[r].first = "timeout" => (rq[r].attempts = 1 /\ Done(r) /\ rq[r].status = 504)
        /\ (Done(r) /\ rq[r].first = "failed" /\ rq[r].exc # None) => rq[r].status = 500

\* C2 (amended): as claimed, except that a retry that fails with a timeout
\* error ends with 504; every other failure of the retry ends with 500.
C2_RetryPolicy ==
    \A r \in Req :
        /\ rq[r].attempts <= 2
        /\ EngineRuns(r) <= 1
        /\ rq[r].first = "failed" => rq[r].attempts = 2
        /\ rq[r].first = "timeout" =>
              (rq[r].attempts = 1 /\ Done(r) /\ rq[r].status = 504 /\ rq[r].calls = <<>>)
        /\ (Done(r) /\ rq[r].first = "failed" /\ rq[r].exc # None) =>
              rq[r].status = IF rq[r].exc = "TimeoutError" THEN 504 ELSE 500

\* a retry that failed, answered with 500
C2_Witness ==
    \E r \in Req :
        Done(r) /\ rq[r].first = "failed" /\ rq[r].attempts = 2
            /\ rq[r].exc = "NoAudio" /\ rq[r].status = 500

Sent(r) == rq[r].pc # "idle"
NoEngineWork(r) == rq[r].calls = <<>> /\ rq[r].attempts = 0
NoFileWork(r) == rq[r].fsops = 0 /\ rq[r].fd = 0 /\ rq[r].out_path = <<>>

\* C3: a request whose text is empty or only whitespace is rejected with
\* 422, the engine is never invoked and the request creates or deletes no
\* file, whatever the length of the text and whether or not the engine is
\* available.
C3_BlankTextRejected ==
    \A r \in Req :
        (Sent(r) /\ IsBlank(rq[r].payload.text))
            => (Done(r) /\ rq[r].status = 422 /\ NoEngineWork(r) /\ NoFileWork(r))

\* whitespace longer than the limit, with the engine unavailable
C3_Witness ==
    \E r \in Req :
        /\ Done(r) /\ rq[r].status = 422 /\ KPipeline = None
        /\ rq[r].payload.text = <<Run(WS, MAX_TEXT_LENGTH + 1)>>

\* C4 (as claimed): a request whose text is longer than MAX_TEXT_LENGTH and
\* not only whitespace is rejected with 413, before any engine invocation
\* and without creating a file.
C4_LongTextRejected ==
    \A r \in Req :
        (Sent(r) /\ TextLen(rq[r].payload.text) > MAX_TEXT_LENGTH
                 /\ ~IsBlank(rq[r].payload.text))
            => (Done(r) /\ rq[r].status = 413 /\ NoEngineWork(r) /\ NoFileWork(r))

\* C4 (amended): a request whose text is longer than MAX_TEXT_LENGTH after
\* its leading and trailing whitespace is stripped is rejected with 413,
\* before any engine invocation and without creating a file.
C4_LongStrippedTextRejected ==
    \A r \in Req :
        (Sent(r) /\ TextLen(LStrip(RStrip(rq[r].payload.text))) > MAX_TEXT_LENGTH)
            => (Done(r) /\ rq[r].status = 413 /\ NoEngineWork(r) /\ NoFileWork(r))

\* a text one character over the limit, between whitespace, rejected
C4_Witness ==
    \E r \in Req :
        /\ Done(r) /\ rq[r].status = 413
        /\ rq[r].payload.text = <<Run(WS, 1), Run("a", MAX_TEXT_LENGTH + 1), Run(WS, 1)>>

PassesValidation(t) ==
    LET core == LStrip(RStrip(t)) IN core # <<>> /\ TextLen(core) <= MAX_TEXT_LENGTH

\* C5: when the engine failed to load, every request that passes the text
\* validation ends with 503; no attempt is started, no file name is
\* generated and no file is written.
C5_EngineUnavailable ==
    \A r \in Req :
        (KPipeline = None /\ Sent(r) /\ PassesValidation(rq[r].payload.text))
            => (Done(r) /\ rq[r].status = 503 /\ NoEngineWork(r) /\ NoFileWork(r))

\* a text of exactly the maximum length, answered with 503
C5_Witness ==
    \E r \in Req :
        /\ KPipeline = None /\ Done(r) /\ rq[r].status = 503
        /\ rq[r].payload.text = <<Run("a", MAX_TEXT_LENGTH)>>

\* C6 (as claimed): whenever POST /tts answers 200, download_url is
\* "/download/" followed by filename, filename is kokoro_<millisecond
\* timestamp>.wav, and a GET of that URL made right after the response finds
\* the file, under every interleaving with other requests.
C6_RoundTrip ==
    [][\A r \in Req :
          (rq[r].status # 200 /\ rq'[r].status = 200) =>
              LET data == rq'[r].response
              IN  /\ data.download_url = <<"/download/">> \o data.filename
                  /\ Len(data.filename) = 3
                  /\ data.filename[1] = "kokoro_"
                  /\ data.filename[2] \in Nat
                  /\ data.filename[3] = ".wav"
                  /\ <<STATIC_DIR>> \o RouteFilename(data.download_url) \in DOMAIN files'
      ]_vars

Scheduled(d) == dl[d].status = 200
TaskPath(d) == <<STATIC_DIR>> \o dl[d].filename

Owners(path) == {r \in Req : rq[r].out_path = path}

\* C7 (as claimed): after any successful download, the second or a later one
\* of the same file included, the file stays retrievable until
\* FILE_CLEANUP_DELAY has elapsed since that download.  Stated for the
\* plainest artifacts: completely written when served, under a name that
\* only one request was given.
C7_RetrievableUntilDelay ==
    \A d \in Dl :
        (/\ Scheduled(d) /\ dl[d].served = "written"
         /\ Cardinality(Owners(TaskPath(d))) = 1
         /\ dl[d].remaining > 0)
            => TaskPath(d) \in DOMAIN files

Pending(dls) == {d \in Dl : dls[d].pc \in {"sleep", "unlink"}}

\* C9: a GET /download of a name that is not in the scratch directory is
\* answered with 404, schedules no deferred deletion and changes no file;
\* for a name that is there it is answered with the file and schedules
\* exactly one deferred deletion, of that path, after FILE_CLEANUP_DELAY.
C9_DownloadContract ==
    [][\A d \in Dl :
          (dl[d].pc = "idle" /\ dl'[d].pc # "idle") =>
              LET path == <<STATIC_DIR>> \o dl'[d].filename
              IN  /\ files' = files
                  /\ \A e \in Dl \ {d} : dl'[e] = dl[e]
                  /\ IF path \in DOMAIN files
                     THEN /\ dl'[d].status = 200
                          /\ Pending(dl') = Pending(dl) \cup {d}
                          /\ dl'[d].remaining = FILE_CLEANUP_DELAY
                     ELSE /\ dl'[d].status = 404
                          /\ Pending(dl') = Pending(dl)
      ]_vars

\* one GET answered with 404 and one answered with the file, its deletion
\* pending
C9_Witness ==
    \E d, e \in Dl :
        /\ dl[d].status = 404 /\ dl[d].pc = "done"
        /\ dl[e].status = 200 /\ dl[e].pc = "sleep" /\ dl[e].remaining = FILE_CLEANUP_DELAY

Valid(item) == item # <<None>> /\ Len(item) = 3
NoValidItem(items) == \A i \in 1..Len(items) : ~Valid(items[i])
Generated(r) == \E i \in 1..Len(rq[r].calls) : rq[r].calls[i].fn = "pipeline"

\* C10: when the engine's sequence completes without a valid item (no
\* items, or only malformed ones), the synthesis fails with the no-audio
\* error, the request is not answered with 200 (it is answered with 500),
\* and the request leaves no file at its output path.
C10_NoAudioProduced ==
    \A r \in Req :
        (Generated(r) /\ rq[r].output.raises = None /\ NoValidItem(rq[r].output.items)) =>
            /\ rq[r].exc = "NoAudio"
            /\ rq[r].fd = 0
            /\ ~(rq[r].out_path \in DOMAIN files /\ files[rq[r].out_path].by = r)
            /\ Done(r) => rq[r].status = 500

\* a sequence of two malformed items, answered with 500
C10_Witness ==
    \E r \in Req :
        /\ Done(r) /\ rq[r].status = 500 /\ rq[r].exc = "NoAudio"
        /\ rq[r].output = [items |-> << <<"gs", "ps">>, <<None>> >>, raises |-> None]

\* C11: cleanup_file on a path that does not exist (never created, or
\* already deleted) changes no file and raises nothing to its caller, also
\* when the file was removed by another cleanup of the same path between
\* this one's existence check and its unlink.
C11_IdempotentCleanup ==
    [][\A d \in Dl :
          (/\ dl[d].pc \in {"sleep", "unlink"} /\ dl'[d].pc = "done"
           /\ TaskPath(d) \notin DOMAIN files)
              => (files' = files /\ dl'[d].raised = None /\ dl'[d].status = 200)
      ]_vars

\* two deferred deletions of one path, the second of which found the file
\* at its existence check and not at its unlink
C11_Witness ==
    \E d, e \in Dl :
        /\ d # e /\ dl[d].filename = dl[e].filename
        /\ dl[d].pc = "done" /\ dl[e].pc = "done"
        /\ dl[d].caught = None /\ dl[d].status = 200
        /\ dl[e].caught = "FileNotFoundError" /\ dl[e].raised = None

Answered200(r) == rq[r].status = 200
Artifact(r) == <<STATIC_DIR>> \o rq[r].response.filename

\* C12 (as claimed): the artifact named in a 200 response of POST /tts
\* stays on disk until a deferred deletion scheduled by a download of that
\* file name removes it: no other step removes it, so an artifact that was
\* never downloaded is never deleted.
C12_DeletedOnlyByItsCleanup ==
    [][\A r \in Req :
          (/\ Answered200(r)
           /\ Artifact(r) \in DOMAIN files /\ Artifact(r) \notin DOMAIN files')
              => \E d \in Dl :
                    /\ dl[d].status = 200 /\ dl[d].filename = rq[r].response.filename
                    /\ dl[d].pc = "unlink" /\ dl'[d].pc = "done"
      ]_vars

\* C13 (as claimed): no two POST /tts requests are assigned the same output
\* path.
C13_UniqueFilenames ==
    \A r, q \in Req :
        (r # q /\ rq[r].out_path # <<>>) => rq[r].out_path # rq[q].out_path

\* C14 (as claimed): once a request has ended with 504, no file of that
\* request's file name is there, neither then nor later, so that a GET of
\* that name is answered with 404.
C14_NoArtifactAfter504 ==
    \A r \in Req :
        (Done(r) /\ rq[r].status = 504 /\ rq[r].out_path # <<>>)
            => rq[r].out_path \notin DOMAIN files

Failed(r) == Done(r) /\ rq[r].status \notin {0, 200}
WrittenBy(r) == {p \in DOMAIN files : files[p].by = r}

ValidAt(items) == {i \in 1..Len(items) : Valid(items[i])}
LastValidAudio(items) ==
    LET i == CHOOSE k \in ValidAt(items) : \A j \in ValidAt(items) : j <= k
    IN  items[i][3]
WroteAudio(r) == {files[p].audio : p \in {q \in WrittenBy(r) : files[q].state = "written"}}

\* C16: when the engine's sequence completes and holds at least one valid
\* item, the items that are None, empty or shorter than three fields are
\* skipped without a failure, the audio handed to the write is that of the
\* last valid item, a file this request has written holds exactly that
\* audio, and the request is answered 200 (it fails only if the write of
\* the file itself raises).
C16_LastValidAudioWritten ==
    \A r \in Req :
        (Generated(r) /\ rq[r].output.raises = None /\ ~NoValidItem(rq[r].output.items)) =>
            LET audio == LastValidAudio(rq[r].output.items)
            IN  /\ rq[r].last_audio = audio
                /\ rq[r].exc \in {None, "Exception"}
                /\ rq[r].exc = "Exception" => rq[r].pc \in {"except", "done"}
                /\ WroteAudio(r) \subseteq {audio}
                /\ Done(r) => rq[r].status = IF rq[r].exc = None THEN 200 ELSE 500

\* a valid item followed by a malformed one: the request is answered 200
\* and its file holds the valid item's audio
C16_Witness ==
    \E r \in Req :
        /\ Done(r) /\ rq[r].status = 200
        /\ rq[r].output = [items |-> << <<"gs", "ps", "a2">>, <<"gs", "ps">> >>, raises |-> None]
        /\ rq[r].out_path \in DOMAIN files
        /\ files[rq[r].out_path].state = "written" /\ files[rq[r].out_path].audio = "a2"

StateOf(fs, p) == IF p \in DOMAIN fs THEN fs[p].state ELSE "absent"

\* The file of path p has been deleted: a failed request unlinked it in its
\* except branch, or the background task of a download of it has ended.
Unlinked(r) == Done(r) /\ rq[r].fsops - (IF rq[r].fd # 0 THEN 1 ELSE 0) = 1
Deleted(p) ==
    \/ \E r \in Req : rq[r].out_path = p /\ Unlinked(r)
    \/ \E d \in Dl : dl[d].status = 200 /\ dl[d].pc = "done" /\ TaskPath(d) = p

\* C17 (as claimed): the file of each name moves only from absent to
\* writing, from writing to written, and from writing or written to
\* deleted; and once it has been deleted no step makes a file of that name
\* exist again.
C17_ArtifactStateMachine ==
    [][\A p \in (DOMAIN files) \cup (DOMAIN files') :
          /\ \/ StateOf(files', p) = StateOf(files, p)
             \/ <<StateOf(files, p), StateOf(files', p)>> \in
                    {<<"absent", "partial">>, <<"partial", "written">>,
                     <<"partial", "absent">>, <<"written", "absent">>}
          /\ (p \notin DOMAIN files /\ p \in DOMAIN files') => ~Deleted(p)
      ]_vars

\* C18 (as claimed): a GET /download is handled and answered without
\* waiting for a deferred deletion, its own or another download's, however
\* many deferred deletions are pending: in every state a download that has
\* not been made yet can be made.
C18_NeverBlockedByCleanup ==
    \A d \in Dl : dl[d].pc = "idle" => ENABLED Download(d)

Calls(r, fn) == SelectSeq(rq[r].calls, LAMBDA c : c.fn = fn)

\* C19: a request constructs the engine at most once and calls it at most
\* once, and writes its file at most once; the engine is constructed and
\* the file written only by the retry (the second attempt), never while
\* the first attempt is awaited nor after it timed out.
C19_PipelineRunsAtMostOnce ==
    /\ [](\A r \in Req :
             /\ Len(Calls(r, "KPipeline")) <= 1 /\ Len(Calls(r, "pipeline")) <= 1
             /\ (rq[r].attempts <= 1 \/ rq[r].first = "timeout") =>
                    (rq[r].calls = <<>> /\ rq[r].fd = 0 /\ rq[r].fsops = 0))
    /\ [][\A r \in Req :
             /\ Len(rq'[r].calls) > Len(rq[r].calls) =>
                    (rq[r].pc = "retry" /\ rq[r].attempts = 2 /\ rq[r].calls = <<>>)
             /\ (rq[r].pc = "write" /\ rq'[r].pc # "write") =>
                    (rq[r].attempts = 2 /\ rq[r].fd = 0 /\ rq[r].fsops = 0)
         ]_vars

\* a request answered 200 after a failed first attempt and one run of the
\* engine in the retry
C19_Witness ==
    \E r \in Req :
        /\ Done(r) /\ rq[r].status = 200 /\ rq[r].first = "failed" /\ rq[r].attempts = 2
        /\ Len(Calls(r, "KPipeline")) = 1 /\ Len(Calls(r, "pipeline")) = 1 /\ rq[r].fd = r

Given(v, default) == IF v \in {None, ""} THEN default ELSE v

\* C20: whenever the engine is constructed or called, the engine is
\* available; the text passed is the request's text without its leading
\* and trailing whitespace, not empty and at most MAX_TEXT_LENGTH long; the
\* voice and the language passed are not empty: the request's value, or the
\* default when that value is unset or empty.
C20_EngineArguments ==
    \A r \in Req : \A i \in 1..Len(rq[r].calls) :
        LET c == rq[r].calls[i]
            p == rq[r].payload
        IN  /\ KPipeline # None
            /\ c.fn = "KPipeline" =>
                   (c.lang_code \notin {None, ""} /\ c.lang_code = Given(p.lang, DEFAULT_LANG))
            /\ c.fn = "pipeline" =>
                   /\ c.text = LStrip(RStrip(p.text))
                   /\ c.text # <<>> /\ c.text[1].c # WS /\ c.text[Len(c.text)].c # WS
                   /\ TextLen(c.text) \in 1..MAX_TEXT_LENGTH
                   /\ c.voice \notin {None, ""} /\ c.voice = Given(p.voice, DEFAULT_VOICE)
                   /\ c.speed = p.speed

\* the engine called for a request with an empty voice and a null language
C20_Witness ==
    \E r \in Req :
        /\ Generated(r) /\ rq[r].payload.voice = "" /\ rq[r].payload.lang = None
        /\ rq[r].calls[1].lang_code = DEFAULT_LANG /\ rq[r].calls[2].voice = DEFAULT_VOICE

====
